---- MODULE Spec2Model ----
(***************************************************************************)
(* A model of the to-do list core of todo.py: the Task record, the         *)
(* TodoList store (tasks, next_id), its JSON backing file, and the         *)
(* operations add_task, remove_task, get_task, mark_complete,              *)
(* mark_incomplete, list_tasks, get_categories, get_stats and the          *)
(* constructor (load_tasks).                                               *)
(*                                                                         *)
(* Spec is one TodoList instance whose operations are atomic steps.        *)
(* SpecTwo is two processes, each with its own TodoList on the same file,  *)
(* where save_tasks is two steps (open(..., 'w'), then the write of the    *)
(* document when the file is closed) and either step can fail.            *)
(*                                                                         *)
(* Python values: an Optional value is a sequence of length at most one    *)
(* (None is << >>, a present value v is <<v>>); a dict is a function whose *)
(* domain is the set of keys it holds; a timestamp (the isoformat string   *)
(* of datetime.now()) is the integer reading of the clock, ordered as the  *)
(* strings are ordered.                                                    *)
(***************************************************************************)
EXTENDS Integers, Sequences, FiniteSets, TLC

VARIABLES
    file,      \* content of the backing file (data_file)
    raised,    \* the exception the constructor ended with, or "none"
    tasks,     \* self.tasks: sequence of Task objects
    next_id,   \* self.next_id
    now,       \* the wall clock read by datetime.now()
    last,      \* the last call made on the store and what it returned
    view,      \* the list object the caller holds from its last list_tasks call
    issued,    \* history: the ids add_task returned on this instance
    held,      \* history: the ids of the tasks this instance ever held
    issued_before, \* history: the ids add_task returned on earlier instances
    procs,     \* the TodoList instances of concurrent processes on the file
    last_saver \* history: the process whose save_tasks finished last, or 0

vars == <<file, raised, tasks, next_id, now, last, view, issued, held,
          issued_before, procs, last_saver>>

----------------------------------------------------------------------------
(* Bounds of the model *)

\* add_task is taken only while next_id is below this cap
MaxId == 3
\* add_task is taken only while the store holds fewer tasks than this
MaxTasks == 2
\* the clock stops advancing at this reading (later reads tie)
MaxTime == 2

----------------------------------------------------------------------------
(* Python values *)

None == << >>
Some(v) == <<v>>

\* dict.get(key, default)
Get(d, k, default) == IF k \in DOMAIN d THEN d[k] ELSE default

\* str.lower() on the category strings of the model
Lower(s) ==
    CASE s = "Work" -> "work"
      [] s = "WORK" -> "work"
      [] s = "Home" -> "home"
      [] s = "General" -> "general"
      [] OTHER -> s

----------------------------------------------------------------------------
(* Task *)

\* Task.__init__
NewTask(title, description, category, priority, due_date, t) ==
    [id |-> None,
     title |-> title,
     description |-> description,
     category |-> category,
     priority |-> priority,
     due_date |-> due_date,
     completed |-> FALSE,
     created_at |-> t,
     completed_at |-> None]

\* Task.mark_complete
TaskMarkComplete(task, t) ==
    [task EXCEPT !.completed = TRUE, !.completed_at = Some(t)]

\* a mark_incomplete that leaves the completion time on the task
TaskMarkIncompleteKeepsStamp(task) ==
    [task EXCEPT !.completed = FALSE]

\* Task.mark_incomplete
TaskMarkIncomplete(task) ==
    [task EXCEPT !.completed = FALSE, !.completed_at = None]

\* a to_dict that forgets completed_at
ToDictDropsCompletedAt(task) ==
    [id |-> task.id,
     title |-> task.title,
     description |-> task.description,
     category |-> task.category,
     priority |-> task.priority,
     due_date |-> task.due_date,
     completed |-> task.completed,
     created_at |-> task.created_at]

\* Task.to_dict
ToDict(task) ==
    [id |-> task.id,
     title |-> task.title,
     description |-> task.description,
     category |-> task.category,
     priority |-> task.priority,
     due_date |-> task.due_date,
     completed |-> task.completed,
     created_at |-> task.created_at,
     completed_at |-> task.completed_at]

\* Task.from_dict raises KeyError when the record has no 'title'
FromDictRaises(data) == "title" \notin DOMAIN data

\* a from_dict that never reads due_date back
FromDictForgetsDueDate(data, t) ==
    [NewTask(data["title"],
             Get(data, "description", ""),
             Get(data, "category", "General"),
             Get(data, "priority", "Medium"),
             None,
             t)
     EXCEPT !.id = Get(data, "id", None),
            !.completed = Get(data, "completed", FALSE),
            !.created_at = Get(data, "created_at", t),
            !.completed_at = Get(data, "completed_at", None)]

\* Task.from_dict (for a record with a title), read at clock reading t
FromDict(data, t) ==
    [NewTask(data["title"],
             Get(data, "description", ""),
             Get(data, "category", "General"),
             Get(data, "priority", "Medium"),
             Get(data, "due_date", None),
             t)
     EXCEPT !.id = Get(data, "id", None),
            !.completed = Get(data, "completed", FALSE),
            !.created_at = Get(data, "created_at", t),
            !.completed_at = Get(data, "completed_at", None)]

----------------------------------------------------------------------------
(* The backing file *)

\* os.path.exists is false
FileAbsent == [kind |-> "absent"]
\* content json.load rejects (an empty file, arbitrary text)
FileText == [kind |-> "text"]
\* a JSON document whose top level is an array: data.get does not exist
FileArray == [kind |-> "array"]
\* a JSON object
FileObject(data) == [kind |-> "object", data |-> data]

\* TodoList.save_tasks: the whole document is rewritten
SaveTasks(ts, nid) ==
    FileObject([tasks |-> [i \in 1..Len(ts) |-> ToDict(ts[i])],
                next_id |-> nid])

\* a load that takes next_id from the number of tasks it read
LoadTasksCountsTasks(f, t) ==
    IF f.kind = "absent" \/ f.kind = "text"
    THEN [raised |-> "none", tasks |-> << >>, next_id |-> 1]
    ELSE IF f.kind = "array"
    THEN [raised |-> "AttributeError", tasks |-> << >>, next_id |-> 1]
    ELSE LET records == Get(f.data, "tasks", << >>) IN
         IF \E i \in 1..Len(records) : FromDictRaises(records[i])
         THEN [raised |-> "KeyError", tasks |-> << >>, next_id |-> 1]
         ELSE [raised |-> "none",
               tasks |-> [i \in 1..Len(records) |-> FromDict(records[i], t)],
               next_id |-> Len(records) + 1]

\* TodoList.__init__ followed by load_tasks, at clock reading t:
\* the exception that leaves the constructor ("none" when it returns)
\* and the fields of the constructed store
LoadTasks(f, t) ==
    IF f.kind = "absent" \/ f.kind = "text"
    THEN [raised |-> "none", tasks |-> << >>, next_id |-> 1]
    ELSE IF f.kind = "array"
    THEN [raised |-> "AttributeError", tasks |-> << >>, next_id |-> 1]
    ELSE LET records == Get(f.data, "tasks", << >>) IN
         IF \E i \in 1..Len(records) : FromDictRaises(records[i])
         THEN [raised |-> "KeyError", tasks |-> << >>, next_id |-> 1]
         ELSE [raised |-> "none",
               tasks |-> [i \in 1..Len(records) |-> FromDict(records[i], t)],
               next_id |-> Get(f.data, "next_id", 1)]

----------------------------------------------------------------------------
(* list_tasks: the sort *)

\* a rank that puts an unrecognized priority behind Low
PriorityRankUnknownLast(p) ==
    CASE p = "High" -> 0
      [] p = "Medium" -> 1
      [] p = "Low" -> 2
      [] OTHER -> 3

\* priority_order.get(t.priority, 1)
PriorityRank(p) ==
    CASE p = "High" -> 0
      [] p = "Medium" -> 1
      [] p = "Low" -> 2
      [] OTHER -> 1

\* the key of the sort: (t.completed, rank, t.created_at)
SortKey(t) ==
    <<IF t.completed THEN 1 ELSE 0, PriorityRank(t.priority), t.created_at>>

\* Python's tuple comparison a < b, left to right
KeyLess(a, b) ==
    \/ a[1] < b[1]
    \/ a[1] = b[1] /\ a[2] < b[2]
    \/ a[1] = b[1] /\ a[2] = b[2] /\ a[3] < b[3]

\* one step of a stable sort: t goes behind every element not greater than it
Insert(sorted, t) ==
    LET k == Cardinality({i \in 1..Len(sorted) :
                            ~KeyLess(SortKey(t), SortKey(sorted[i]))})
    IN SubSeq(sorted, 1, k) \o <<t>> \o SubSeq(sorted, k + 1, Len(sorted))

RECURSIVE SortByKey(_)
\* list.sort(key=...): stable, ascending
SortByKey(s) ==
    IF s = << >> THEN << >>
    ELSE Insert(SortByKey(SubSeq(s, 1, Len(s) - 1)), s[Len(s)])

\* the truth value of the category argument (None and "" are false)
Truthy(category) == category # None /\ category[1] # ""

\* the list comprehension of "if not show_completed"
DropCompleted(s) ==
    LET Pending(t) == ~t.completed IN SelectSeq(s, Pending)

\* a category filter that compares without lower()
KeepCategoryCaseSensitive(s, category) ==
    LET Matches(t) == t.category = category[1]
    IN SelectSeq(s, Matches)

\* the list comprehension of "if category"
KeepCategory(s, category) ==
    LET Matches(t) == Lower(t.category) = Lower(category[1])
    IN SelectSeq(s, Matches)

\* filtered_tasks is still the object self.tasks when no filter built a new list
ListIsShared(show_completed, category) ==
    show_completed /\ ~Truthy(category)

\* what list_tasks returns
ListResult(s, show_completed, category) ==
    LET f1 == IF ~show_completed THEN DropCompleted(s) ELSE s
        f2 == IF Truthy(category) THEN KeepCategory(f1, category) ELSE f1
    IN SortByKey(f2)

----------------------------------------------------------------------------
(* get_categories and get_stats *)

\* the category strings of the model in Python's string order
CategoryOrder == <<"General", "Home", "WORK", "Work", "work">>

\* TodoList.get_categories: sorted(list(set(...)))
CategoriesResult(s) ==
    LET present == {s[i].category : i \in 1..Len(s)}
        Present(c) == c \in present
    IN SelectSeq(CategoryOrder, Present)

\* a count of the tasks that are not completed
StatsCompletedCountsPending(s) ==
    LET Pending(t) == ~t.completed IN Len(SelectSeq(s, Pending))

\* len([task for task in self.tasks if task.completed])
StatsCompleted(s) ==
    LET Completed(t) == t.completed IN Len(SelectSeq(s, Completed))

RECURSIVE CategoryCountsResets(_)
\* a loop that starts the entry of a category anew at every task
CategoryCountsResets(s) ==
    IF s = << >> THEN [c \in {} |-> [total |-> 0, completed |-> 0]]
    ELSE LET prev == CategoryCountsResets(SubSeq(s, 1, Len(s) - 1))
             t == s[Len(s)]
             entry == [total |-> 1,
                       completed |-> IF t.completed THEN 1 ELSE 0]
         IN [c \in DOMAIN prev \cup {t.category} |->
                IF c = t.category THEN entry ELSE prev[c]]

RECURSIVE CategoryCounts(_)
\* the loop of get_stats over self.tasks, first task to last
CategoryCounts(s) ==
    IF s = << >> THEN [c \in {} |-> [total |-> 0, completed |-> 0]]
    ELSE LET prev == CategoryCounts(SubSeq(s, 1, Len(s) - 1))
             t == s[Len(s)]
             old == IF t.category \in DOMAIN prev THEN prev[t.category]
                    ELSE [total |-> 0, completed |-> 0]
             entry == [total |-> old.total + 1,
                       completed |-> old.completed
                                     + IF t.completed THEN 1 ELSE 0]
         IN [c \in DOMAIN prev \cup {t.category} |->
                IF c = t.category THEN entry ELSE prev[c]]

\* what get_stats returns
StatsResult(s) ==
    LET total == Len(s)
        completed == StatsCompleted(s)
    IN [total |-> total,
        completed |-> completed,
        pending |-> total - completed,
        categories |-> CategoryCounts(s)]

----------------------------------------------------------------------------
(* Inputs *)

\* the (title, description, category, priority, due_date) add_task is called with
AddArgs ==
    {<<"t", "", "Work", "Low", None>>,
     <<"t", "", "work", "High", Some("2024-12-31")>>,
     <<"t", "", "Home", "Medium", None>>,
     <<"t", "", "Home", "Urgent", None>>}
\* what is typed at the prompts of add_task_interactive
TypedArgs ==
    {<<"t", "", "Work", "low", "">>,
     <<"t", "", "Home", "urgent", "">>,
     <<"t", "", "", "", "">>}

CategoryArgs == {None, Some(""), Some("WORK")}
TaskIds == 1..MaxId

\* a record as save_tasks writes it
SavedRecord ==
    ToDict([TaskMarkComplete(NewTask("t", "", "Work", "Low", None, 0), 0)
            EXCEPT !.id = Some(1)])

\* the files a store is constructed from: no file, an empty or garbled file,
\* a JSON array, an empty object, a file this program saved, a record without
\* a title, and an older document without next_id, created_at and completed_at
InitialFiles ==
    {FileAbsent,
     FileText,
     FileArray,
     FileObject([tasks |-> << >>, next_id |-> 1]),
     FileObject([tasks |-> <<SavedRecord>>, next_id |-> 2]),
     FileObject([tasks |-> <<[id |-> Some(1)]>>, next_id |-> 2]),
     FileObject([tasks |-> <<[id |-> Some(1), title |-> "t", completed |-> TRUE]>>])}

----------------------------------------------------------------------------
(* The store *)

Ids(s) == [i \in 1..Len(s) |-> s[i].id]
IdSet(s) == {s[i].id[1] : i \in {j \in 1..Len(s) : s[j].id # None}}

NoView == [held |-> FALSE, shared |-> FALSE, ids |-> << >>]

\* the ids, in order, of the list object the caller holds
Deref(v, ts) == IF v.shared THEN Ids(ts) ELSE v.ids

\* the clock after an operation that read it
Tick(t) == {t2 \in {t, t + 1} : t2 <= MaxTime}

\* the processes that use the file concurrently
Procs == {1, 2}

\* a process that has not constructed its TodoList yet
NotStarted ==
    [pc |-> "none", tasks |-> << >>, next_id |-> 1,
     read |-> FileAbsent, fault |-> "none", out |-> "none"]

\* TodoList(data_file)
Construct(f, t) ==
    LET r == LoadTasks(f, t) IN
    /\ raised' = r.raised
    /\ tasks' = r.tasks
    /\ next_id' = r.next_id
    /\ issued' = {}
    /\ held' = IdSet(r.tasks)
    /\ view' = NoView
    /\ last' = [op |-> "construct"]

Init ==
    /\ now = 1
    /\ \E f \in InitialFiles :
          /\ file = f
          /\ LET r == LoadTasks(f, 1) IN
             /\ raised = r.raised
             /\ tasks = r.tasks
             /\ next_id = r.next_id
             /\ held = IdSet(r.tasks)
    /\ issued = {}
    /\ issued_before = {}
    /\ view = NoView
    /\ last = [op |-> "construct"]
    /\ procs = [p \in Procs |-> NotStarted]
    /\ last_saver = 0

\* a second TodoList is constructed from the same file (a restart)
Restart ==
    /\ UNCHANGED <<procs, last_saver>>
    /\ issued_before' = issued_before \cup issued
    /\ Construct(file, now)
    /\ now' \in Tick(now)
    /\ UNCHANGED file

\* an add_task that numbers the new task by the length of the list
AssignedIdFromLength(s, nid) == Len(s) + 1

\* task.id = self.next_id
AssignedId(s, nid) == nid

\* TodoList.add_task, called by the program using the store ("api") or by
\* add_task_interactive ("shell")
AddTask(title, description, category, priority, due_date, caller) ==
    /\ UNCHANGED <<issued_before, procs, last_saver>>
    /\ raised = "none"
    /\ next_id < MaxId
    /\ Len(tasks) < MaxTasks
    /\ LET task == [NewTask(title, description, category, priority, due_date, now)
                    EXCEPT !.id = Some(AssignedId(tasks, next_id))]
       IN /\ tasks' = Append(tasks, task)
          /\ next_id' = next_id + 1
          /\ file' = SaveTasks(tasks', next_id')
          /\ last' = [op |-> "add_task", caller |-> caller, ret |-> task]
          /\ issued' = issued \cup {task.id[1]}
          /\ held' = held \cup {task.id[1]}
    /\ now' \in Tick(now)
    /\ UNCHANGED <<raised, view>>

\* str.capitalize on the priority strings of the model
Capitalize(s) ==
    CASE s \in {"high", "HIGH", "High"} -> "High"
      [] s \in {"medium", "Medium"} -> "Medium"
      [] s \in {"low", "LOW", "Low"} -> "Low"
      [] s \in {"urgent", "Urgent"} -> "Urgent"
      [] OTHER -> s

\* value or default, for a string typed at a prompt
OrDefault(value, default) == IF value = "" THEN default ELSE value

\* the priority add_task_interactive passes on for what was typed
InteractivePriority(typed) ==
    LET priority == OrDefault(typed, "Medium")
    IN IF Capitalize(priority) \notin {"High", "Medium", "Low"}
       THEN "Medium"
       ELSE Capitalize(priority)

\* add_task_interactive: what was typed at the five prompts
AddTaskInteractive(title, description, category, priority, due_date) ==
    AddTask(title,
            description,
            OrDefault(category, "General"),
            InteractivePriority(priority),
            IF due_date = "" THEN None ELSE Some(due_date),
            "shell")

\* a lookup that falls back to the last task when no id matches
FindDefaultsToLast(s, task_id) ==
    LET hits == {i \in 1..Len(s) : s[i].id = Some(task_id)}
    IN IF hits = {} THEN Len(s) ELSE CHOOSE i \in hits : \A j \in hits : i <= j

\* the index of the first task with this id, 0 when there is none
Find(s, task_id) ==
    LET hits == {i \in 1..Len(s) : s[i].id = Some(task_id)}
    IN IF hits = {} THEN 0 ELSE CHOOSE i \in hits : \A j \in hits : i <= j

\* del self.tasks[i]
Delete(s, i) == SubSeq(s, 1, i - 1) \o SubSeq(s, i + 1, Len(s))

\* TodoList.remove_task
RemoveTask(task_id) ==
    /\ UNCHANGED <<issued_before, procs, last_saver>>
    /\ raised = "none"
    /\ LET i == Find(tasks, task_id) IN
       IF i # 0
       THEN /\ tasks' = Delete(tasks, i)
            /\ file' = SaveTasks(tasks', next_id)
            /\ last' = [op |-> "remove_task", id |-> task_id, ret |-> TRUE]
       ELSE /\ UNCHANGED <<tasks, file>>
            /\ last' = [op |-> "remove_task", id |-> task_id, ret |-> FALSE]
    /\ UNCHANGED <<raised, next_id, now, view, issued, held>>

\* what get_task returns: the first task with this id, or None
GetTaskResult(s, task_id) ==
    LET i == Find(s, task_id) IN IF i # 0 THEN Some(s[i]) ELSE None

\* TodoList.get_task
GetTask(task_id) ==
    /\ UNCHANGED <<issued_before, procs, last_saver>>
    /\ raised = "none"
    /\ last' = [op |-> "get_task", id |-> task_id,
                ret |-> GetTaskResult(tasks, task_id)]
    /\ UNCHANGED <<file, raised, tasks, next_id, now, view, issued, held>>

\* TodoList.mark_complete
MarkComplete(task_id) ==
    /\ UNCHANGED <<issued_before, procs, last_saver>>
    /\ raised = "none"
    /\ LET i == Find(tasks, task_id) IN
       IF i # 0
       THEN /\ tasks' = [tasks EXCEPT ![i] = TaskMarkComplete(tasks[i], now)]
            /\ file' = SaveTasks(tasks', next_id)
            /\ last' = [op |-> "mark_complete", id |-> task_id, ret |-> TRUE]
            /\ now' \in Tick(now)
       ELSE /\ UNCHANGED <<tasks, file, now>>
            /\ last' = [op |-> "mark_complete", id |-> task_id, ret |-> FALSE]
    /\ UNCHANGED <<raised, next_id, view, issued, held>>

\* TodoList.mark_incomplete
MarkIncomplete(task_id) ==
    /\ UNCHANGED <<issued_before, procs, last_saver>>
    /\ raised = "none"
    /\ LET i == Find(tasks, task_id) IN
       IF i # 0
       THEN /\ tasks' = [tasks EXCEPT ![i] = TaskMarkIncomplete(tasks[i])]
            /\ file' = SaveTasks(tasks', next_id)
            /\ last' = [op |-> "mark_incomplete", id |-> task_id, ret |-> TRUE]
       ELSE /\ UNCHANGED <<tasks, file>>
            /\ last' = [op |-> "mark_incomplete", id |-> task_id, ret |-> FALSE]
    /\ UNCHANGED <<raised, next_id, now, view, issued, held>>

\* TodoList.list_tasks: the sort runs on self.tasks itself when no filter
\* made a new list, and the caller then holds self.tasks
ListTasks(show_completed, category) ==
    /\ UNCHANGED <<issued_before, procs, last_saver>>
    /\ raised = "none"
    /\ LET result == ListResult(tasks, show_completed, category)
           shared == ListIsShared(show_completed, category)
       IN /\ tasks' = IF shared THEN result ELSE tasks
          /\ view' = [held |-> TRUE, shared |-> shared,
                      ids |-> IF shared THEN << >> ELSE Ids(result)]
          /\ last' = [op |-> "list_tasks", show_completed |-> show_completed,
                      category |-> category, ret |-> result]
    /\ UNCHANGED <<file, raised, next_id, now, issued, held>>

\* TodoList.get_categories
GetCategories ==
    /\ UNCHANGED <<issued_before, procs, last_saver>>
    /\ raised = "none"
    /\ last' = [op |-> "get_categories", ret |-> CategoriesResult(tasks)]
    /\ UNCHANGED <<file, raised, tasks, next_id, now, view, issued, held>>

\* TodoList.get_stats
GetStats ==
    /\ UNCHANGED <<issued_before, procs, last_saver>>
    /\ raised = "none"
    /\ last' = [op |-> "get_stats", ret |-> StatsResult(tasks)]
    /\ UNCHANGED <<file, raised, tasks, next_id, now, view, issued, held>>

Next ==
    \/ Restart
    \/ \E a \in AddArgs : AddTask(a[1], a[2], a[3], a[4], a[5], "api")
    \/ \E a \in TypedArgs : AddTaskInteractive(a[1], a[2], a[3], a[4], a[5])
    \/ \E task_id \in TaskIds : RemoveTask(task_id)
    \/ \E task_id \in TaskIds : GetTask(task_id)
    \/ \E task_id \in TaskIds : MarkComplete(task_id)
    \/ \E task_id \in TaskIds : MarkIncomplete(task_id)
    \/ \E show_completed \in BOOLEAN, category \in CategoryArgs :
          ListTasks(show_completed, category)
    \/ GetCategories
    \/ GetStats

Spec == Init /\ [][Next]_vars

----------------------------------------------------------------------------
(* Two processes on one file; save_tasks in steps (SpecTwo) *)

\* the length of the strings of the model
StrLen(s) ==
    CASE s = "" -> 0
      [] s = "t" -> 1
      [] s = "Low" -> 3
      [] s \in {"Work", "work", "WORK", "Home", "High"} -> 4
      [] s \in {"Medium", "Urgent"} -> 6
      [] s = "General" -> 7
      [] s = "2024-12-31" -> 10

\* the number of characters json.dump(..., indent=2) writes for one task
\* record inside the "tasks" list (ids below 10, isoformat timestamps with
\* microseconds)
RecordSize(rec) ==
    229
    + (IF rec.id = None THEN 4 ELSE 1)
    + StrLen(rec.title) + StrLen(rec.description)
    + StrLen(rec.category) + StrLen(rec.priority)
    + (IF rec.due_date = None THEN 4 ELSE StrLen(rec.due_date[1]) + 2)
    + (IF rec.completed THEN 4 ELSE 5)
    + (IF rec.completed_at = None THEN 4 ELSE 28)

RECURSIVE RecordsSize(_)
RecordsSize(records) ==
    IF records = << >> THEN 0
    ELSE RecordSize(Head(records)) + RecordsSize(Tail(records))

\* the number of characters of the document save_tasks writes
DocSize(data) ==
    IF data.tasks = << >> THEN 33 ELSE 35 + RecordsSize(data.tasks)

\* the file right after open(self.data_file, 'w'): zero bytes
FileEmpty == [kind |-> "text", bytes |-> 0]

\* the number of bytes of the file
Size(f) ==
    CASE f.kind = "absent" -> 0
      [] f.kind = "text" -> f.bytes
      [] f.kind = "object" -> DocSize(f.data)

\* the file after the bytes of doc are written at offset 0 of the descriptor
\* (the single write of the buffered document when the with block closes the
\* file): a longer content keeps its tail, and the result is no JSON document
WriteAtStart(f, doc) ==
    IF Size(f) <= Size(doc) THEN doc
    ELSE [kind |-> "text", bytes |-> Size(f), head |-> doc.data]

\* a failed write that is caught and dropped inside save_tasks
SwallowedBySave(error) == "returned"

\* save_tasks and the four mutating operations have no except clause: the
\* error raised by open or by the write leaves the operation as it is
Propagated(error) == error

\* the files the two processes start from
InitialFilesTwo ==
    {FileAbsent, FileObject([tasks |-> <<SavedRecord>>, next_id |-> 2])}

\* the add_task calls of the two processes
AddArgsTwo ==
    {<<"t", "", "Work", "Low", None>>,
     <<"t", "", "work", "High", Some("2024-12-31")>>}

\* the variables of the single instance of Spec, which SpecTwo leaves alone
single ==
    <<raised, tasks, next_id, now, last, view, issued, held, issued_before>>

InitTwo ==
    /\ file \in InitialFilesTwo
    /\ procs = [p \in Procs |-> NotStarted]
    /\ last_saver = 0
    /\ now = 1
    /\ raised = "none"
    /\ tasks = << >>
    /\ next_id = 1
    /\ issued = {}
    /\ issued_before = {}
    /\ held = {}
    /\ view = NoView
    /\ last = [op |-> "construct"]

\* process p constructs its TodoList: load_tasks reads the file as it is now
ConstructTwo(p) ==
    /\ procs[p].pc = "none"
    /\ LET r == LoadTasks(file, now) IN
       procs' = [procs EXCEPT ![p] =
                    [pc |-> "idle", tasks |-> r.tasks, next_id |-> r.next_id,
                     read |-> file, fault |-> "none", out |-> "none"]]
    /\ UNCHANGED <<file, last_saver, single>>

\* add_task up to the call of save_tasks (lines 115-119)
AddTaskTwo(p, title, description, category, priority, due_date) ==
    /\ procs[p].pc = "idle"
    /\ procs[p].next_id < MaxId
    /\ Len(procs[p].tasks) < MaxTasks
    /\ LET task == [NewTask(title, description, category, priority, due_date, now)
                    EXCEPT !.id = Some(AssignedId(procs[p].tasks, procs[p].next_id))]
       IN procs' = [procs EXCEPT ![p].tasks = Append(@, task),
                                 ![p].next_id = @ + 1,
                                 ![p].pc = "open",
                                 ![p].fault = "none",
                                 ![p].out = "none"]
    /\ UNCHANGED <<file, last_saver, single>>

\* save_tasks: open(self.data_file, 'w') truncates the file
SaveOpen(p) ==
    /\ procs[p].pc = "open"
    /\ file' = FileEmpty
    /\ procs' = [procs EXCEPT ![p].pc = "write"]
    /\ UNCHANGED <<last_saver, single>>

\* save_tasks: open raises (permission denied); the file is not touched
SaveOpenFails(p) ==
    /\ procs[p].pc = "open"
    /\ procs' = [procs EXCEPT ![p].pc = "idle",
                              ![p].fault = "EACCES",
                              ![p].out = Propagated("OSError")]
    /\ UNCHANGED <<file, last_saver, single>>

\* save_tasks: json.dump fills the buffer and the end of the with block
\* writes it; add_task returns the task
SaveClose(p) ==
    /\ procs[p].pc = "write"
    /\ file' = WriteAtStart(file, SaveTasks(procs[p].tasks, procs[p].next_id))
    /\ procs' = [procs EXCEPT ![p].pc = "idle", ![p].out = "returned"]
    /\ last_saver' = p
    /\ UNCHANGED single

\* save_tasks: the write raises (disk full); nothing reaches the file
SaveCloseFails(p) ==
    /\ procs[p].pc = "write"
    /\ procs' = [procs EXCEPT ![p].pc = "idle",
                              ![p].fault = "ENOSPC",
                              ![p].out = Propagated("OSError")]
    /\ UNCHANGED <<file, last_saver, single>>

NextTwo ==
    \/ \E p \in Procs : ConstructTwo(p)
    \/ \E p \in Procs, a \in AddArgsTwo :
          AddTaskTwo(p, a[1], a[2], a[3], a[4], a[5])
    \/ \E p \in Procs : SaveOpen(p)
    \/ \E p \in Procs : SaveOpenFails(p)
    \/ \E p \in Procs : SaveClose(p)
    \/ \E p \in Procs : SaveCloseFails(p)

SpecTwo == InitTwo /\ [][NextTwo]_vars

----------------------------------------------------------------------------
(* Properties *)

\* the step is a call of add_task
IsAddStep == last'.op = "add_task" /\ Len(tasks') = Len(tasks) + 1

\* the number of positions of s that hold t
Count(s, t) == Cardinality({i \in 1..Len(s) : s[i] = t})

\* s and r hold the same tasks, each as often
SameTasks(s, r) ==
    /\ Len(s) = Len(r)
    /\ \A i \in 1..Len(s) : Count(s, s[i]) = Count(r, s[i])

\* the last call changed the store and returned normally
Mutated ==
    \/ last.op = "add_task"
    \/ last.op \in {"remove_task", "mark_complete", "mark_incomplete"} /\ last.ret

\* C1: every add_task returns a task whose id is strictly greater than every
\* id this instance issued before, also after removals.
C1_AddIdsIncrease ==
    [][IsAddStep =>
          /\ last'.ret.id # None
          /\ \A i \in issued : last'.ret.id[1] > i]_vars

\* C1 witness: id 1 was issued and removed, and the next add_task returned id 2.
C1_Witness ==
    /\ last.op = "add_task"
    /\ last.ret.id = Some(2)
    /\ issued = {1, 2}
    /\ Len(tasks) = 1

\* next_id exceeds the id of every task the store holds or ever held
NextIdAboveEveryId ==
    raised = "none" => \A i \in held \cup IdSet(tasks) : next_id > i

\* C2: in every state of a store, the state after construction from its file
\* included, next_id is strictly greater than the id of every task the store
\* holds or ever held, and next_id never decreases.
C2_NextIdAboveEveryId ==
    /\ []NextIdAboveEveryId
    /\ [][next_id' >= next_id]_vars

\* every id of the collection is a positive integer and no two are equal
IdsUniqueAndPositive ==
    /\ \A i \in 1..Len(tasks) : tasks[i].id # None /\ tasks[i].id[1] > 0
    /\ \A i, j \in 1..Len(tasks) : i # j => tasks[i].id # tasks[j].id

\* C3: in every state no two tasks of the collection have the same id, every
\* task of the collection has a positive integer id, and the operations that
\* keep a task in the collection (get_task, mark_complete, mark_incomplete)
\* leave every id as it was.
C3_IdsUniqueAndPositive ==
    /\ []IdsUniqueAndPositive
    /\ [][last'.op \in {"get_task", "mark_complete", "mark_incomplete"} =>
            Ids(tasks') = Ids(tasks)]_vars

\* C4: for every task of the store, also one rebuilt from a stored record,
\* completed_at is non-null if and only if completed is true.
C4_CompletedAtIffCompleted ==
    \A i \in 1..Len(tasks) :
        (tasks[i].completed_at # None) <=> tasks[i].completed

\* C5: after every add_task, and every remove_task, mark_complete or
\* mark_incomplete that returned true, a fresh TodoList constructed from the
\* backing file has the same next_id and the same tasks, field by field, in
\* the same order, as the store in memory.
C5_FileHoldsStore ==
    Mutated =>
        LET fresh == LoadTasks(file, now) IN
        /\ fresh.raised = "none"
        /\ fresh.next_id = next_id
        /\ fresh.tasks = tasks

\* C5 witness: a completed and a pending task are held after a mark_complete
\* that returned true.
C5_Witness ==
    /\ last.op = "mark_complete"
    /\ last.ret
    /\ Len(tasks) = 2
    /\ \E i, j \in 1..2 : tasks[i].completed /\ ~tasks[j].completed

\* after a remove_task(id) that returned true no task with that id is left,
\* in memory or in a store loaded from the file
RemovedIsGone ==
    last.op = "remove_task" /\ last.ret =>
        /\ GetTaskResult(tasks, last.id) = None
        /\ LET fresh == LoadTasks(file, now) IN
           \A i \in 1..Len(fresh.tasks) : fresh.tasks[i].id # Some(last.id)

\* C6: when remove_task(id) returned true, get_task(id) returns None and a
\* fresh TodoList constructed from the backing file holds no task with that
\* id; the call removed exactly one task.
C6_RemovedIsGone ==
    /\ []RemovedIsGone
    /\ [][last'.op = "remove_task" /\ last'.ret =>
            Len(tasks') = Len(tasks) - 1]_vars

\* C7: constructing a TodoList never raises; from a missing, corrupt or
\* malformed file the store starts with tasks = [] and next_id = 1.
C7_ConstructNeverRaises ==
    /\ raised = "none"
    /\ last.op = "construct" /\ LoadTasks(file, now).raised # "none" =>
          tasks = << >> /\ next_id = 1
    /\ last.op = "construct" /\ file.kind \in {"absent", "text"} =>
          tasks = << >> /\ next_id = 1

\* the rank the specification gives a priority
SpecRank(p) ==
    IF p = "High" THEN 0 ELSE IF p = "Low" THEN 2 ELSE 1

\* C8: the sequence list_tasks returns is ascending by (completed, priority
\* rank, created_at): no completed task before an incomplete one, within
\* equal completion no higher rank before a lower one, and within equal
\* completion and rank no later-created task before an earlier-created one.
C8_ListSorted ==
    last.op = "list_tasks" =>
        \A i, j \in 1..Len(last.ret) : i < j =>
            LET a == last.ret[i]
                b == last.ret[j]
            IN /\ a.completed => b.completed
               /\ a.completed = b.completed =>
                     SpecRank(a.priority) <= SpecRank(b.priority)
               /\ a.completed = b.completed
                  /\ SpecRank(a.priority) = SpecRank(b.priority) =>
                     a.created_at <= b.created_at

\* C8 witness: list_tasks returned the task added second before the task
\* added first, an unrecognized priority ranked before Low.
C8_Witness ==
    /\ last.op = "list_tasks"
    /\ Len(last.ret) = 2
    /\ last.ret[1].id = Some(2) /\ last.ret[1].priority = "Urgent"
    /\ last.ret[2].id = Some(1) /\ last.ret[2].priority = "Low"

\* the tasks of s that pass the filters, a category filtering when it is
\* not None
PassesAsStated(t, show_completed, category) ==
    /\ show_completed \/ ~t.completed
    /\ category # None => Lower(t.category) = Lower(category[1])

\* the tasks of s that pass the filters, a category filtering when it is
\* neither None nor the empty string
PassesAmended(t, show_completed, category) ==
    /\ show_completed \/ ~t.completed
    /\ (category # None /\ category[1] # "") =>
          Lower(t.category) = Lower(category[1])

\* C9 as stated: list_tasks returns exactly the tasks that pass both filters,
\* each once, every given category (the empty string too) filtering.
C9_AsStated ==
    last.op = "list_tasks" =>
        LET Passes(t) == PassesAsStated(t, last.show_completed, last.category)
        IN SameTasks(last.ret, SelectSeq(tasks, Passes))

\* C9 amended: list_tasks returns exactly the tasks that pass both filters,
\* each once; a category that is the empty string filters nothing, as no
\* category does.
C9_ListExactlyFiltered ==
    last.op = "list_tasks" =>
        LET Passes(t) == PassesAmended(t, last.show_completed, last.category)
        IN SameTasks(last.ret, SelectSeq(tasks, Passes))

\* C9 witness: list_tasks(show_completed=False, category="WORK") returned the
\* one pending task of category "Work" and dropped another task.
C9_Witness ==
    /\ last.op = "list_tasks"
    /\ ~last.show_completed
    /\ last.category = Some("WORK")
    /\ Len(last.ret) = 1
    /\ last.ret[1].category = "Work"
    /\ Len(tasks) = 2

\* C10: the sequence list_tasks returned is a snapshot: a later add_task,
\* remove_task or list_tasks changes neither its membership nor its order.
C10_ViewIsSnapshot ==
    [][view.held /\ last'.op \in {"add_task", "remove_task", "list_tasks"} =>
          (IF view.shared THEN Ids(tasks') ELSE view.ids) = Deref(view, tasks)]_vars

\* the number of tasks of s that satisfy nothing but being completed
NumCompleted(s) == Cardinality({i \in 1..Len(s) : s[i].completed})

\* C11: get_stats returns total = the number of tasks of the collection,
\* completed = the number of completed ones, and pending with
\* total = completed + pending.
C11_StatsCounts ==
    last.op = "get_stats" =>
        /\ last.ret.total = Len(tasks)
        /\ last.ret.completed = NumCompleted(tasks)
        /\ last.ret.total = last.ret.completed + last.ret.pending

\* C11 witness: an empty store, one add_task (id 1), and get_stats returned
\* total 1, completed 0, pending 1.
C11_Witness ==
    /\ last.op = "get_stats"
    /\ issued = {1}
    /\ Len(tasks) = 1
    /\ last.ret.total = 1 /\ last.ret.completed = 0 /\ last.ret.pending = 1

\* the step is a call by id that found no task with that id
IsMissStep ==
    /\ last'.op \in {"remove_task", "mark_complete", "mark_incomplete",
                     "get_task"}
    /\ \A i \in 1..Len(tasks) : tasks[i].id # Some(last'.id)

\* C12: for an id held by no task, remove_task, mark_complete and
\* mark_incomplete return False and get_task returns None, and the tasks,
\* next_id and the backing file are left as they were.
C12_MissChangesNothing ==
    [][IsMissStep =>
          /\ last'.ret = IF last'.op = "get_task" THEN None ELSE FALSE
          /\ tasks' = tasks
          /\ next_id' = next_id
          /\ file' = file]_vars

\* C12 witness: remove_task returned False on a store that holds two tasks
\* and has saved them.
C12_Witness ==
    /\ last.op = "remove_task"
    /\ ~last.ret
    /\ Len(tasks) = 2
    /\ file = SaveTasks(tasks, next_id)

\* the fields mark_complete and mark_incomplete do not write
OtherFields ==
    {"id", "title", "description", "category", "priority", "due_date",
     "created_at"}

\* C13: for every task, completed or not, mark_complete followed by
\* mark_incomplete leaves completed false and completed_at absent and changes
\* no other field, and mark_incomplete twice gives what mark_incomplete once
\* gives.
C13_CompleteThenIncomplete ==
    \A i \in 1..Len(tasks), t \in 0..MaxTime :
        LET task == tasks[i]
            r == TaskMarkIncomplete(TaskMarkComplete(task, t))
        IN /\ r.completed = FALSE
           /\ r.completed_at = None
           /\ \A f \in OtherFields : r[f] = task[f]
           /\ TaskMarkIncomplete(TaskMarkIncomplete(task))
                 = TaskMarkIncomplete(task)

\* C13 witness: the task loaded as completed (created at reading 0) was marked
\* incomplete by the store.
C13_Witness ==
    /\ last.op = "mark_incomplete"
    /\ last.ret
    /\ \E i \in 1..Len(tasks) :
          /\ tasks[i].created_at = 0
          /\ ~tasks[i].completed
          /\ tasks[i].completed_at = None

\* C14: for every task, completed or not, with or without id, due_date and
\* completed_at, from_dict(to_dict(t)) equals t in all nine fields.
C14_RoundTrip ==
    \A i \in 1..Len(tasks) :
        LET task == tasks[i]
            fresh == [task EXCEPT !.id = None]
        IN /\ FromDict(ToDict(task), now) = task
           /\ FromDict(ToDict(fresh), now) = fresh

\* C14 witness: the store holds a completed task without due_date and a
\* pending task with a due_date, created before the present clock reading.
C14_Witness ==
    /\ Len(tasks) = 2
    /\ \E i, j \in 1..2 :
          /\ tasks[i].completed /\ tasks[i].completed_at # None
          /\ tasks[i].due_date = None
          /\ ~tasks[j].completed /\ tasks[j].due_date # None
          /\ tasks[j].created_at < now

RECURSIVE SumOver(_, _, _)
\* the sum of f[c][k] over the categories c of S
SumOver(f, k, S) ==
    IF S = {} THEN 0
    ELSE LET c == CHOOSE x \in S : TRUE
         IN f[c][k] + SumOver(f, k, S \ {c})

\* the three priorities the specification names
KnownPriorities == {"High", "Medium", "Low"}

\* C15: every task created through add_task has a priority in
\* {High, Medium, Low}; a priority argument outside that set is stored as
\* Medium.
C15_PriorityIsKnown ==
    last.op = "add_task" => last.ret.priority \in KnownPriorities

\* C19: the categories mapping of get_stats has exactly one entry per
\* distinct category of the collection; each entry holds the number of tasks
\* of that category and the number of completed ones, completed <= total, and
\* the entries sum to the overall total and completed.
C19_StatsPerCategory ==
    last.op = "get_stats" =>
        LET cats == last.ret.categories
            Of(c) == {i \in 1..Len(tasks) : tasks[i].category = c}
        IN /\ DOMAIN cats = {tasks[i].category : i \in 1..Len(tasks)}
           /\ \A c \in DOMAIN cats :
                 /\ cats[c].total = Cardinality(Of(c))
                 /\ cats[c].completed
                       = Cardinality({i \in Of(c) : tasks[i].completed})
                 /\ cats[c].completed <= cats[c].total
           /\ SumOver(cats, "total", DOMAIN cats) = last.ret.total
           /\ SumOver(cats, "completed", DOMAIN cats) = last.ret.completed

\* C19 witness: get_stats returned one entry for the two tasks of category
\* "Home", one of them completed.
C19_Witness ==
    /\ last.op = "get_stats"
    /\ DOMAIN last.ret.categories = {"Home"}
    /\ last.ret.categories["Home"].total = 2
    /\ last.ret.categories["Home"].completed = 1

\* C20: list_tasks, get_task, get_categories and get_stats leave the tasks
\* sequence (membership, order and every field), next_id and the backing file
\* as they were.
C20_QueriesChangeNothing ==
    [][last'.op \in {"list_tasks", "get_task", "get_categories", "get_stats"} =>
          /\ tasks' = tasks
          /\ next_id' = next_id
          /\ file' = file]_vars

\* C16: while a save is under way a reader of the file sees the complete
\* previous content or the complete new content: no process ever constructs
\* its TodoList from an empty or partly written file.
C16_ReaderSeesCompleteDocument ==
    \A p \in Procs :
        procs[p].pc # "none" => procs[p].read.kind \in {"absent", "object"}

C18_LastWriteWins ==
    (/\ last_saver # 0
     /\ \A p \in Procs : procs[p].pc \in {"none", "idle"}
     /\ \A p \in Procs : procs[p].out # "OSError")
    => file = SaveTasks(procs[last_saver].tasks, procs[last_saver].next_id)

\* C21: ids are not reused across restarts: after a fresh TodoList is
\* constructed from the same file, every add_task returns an id greater than
\* every id add_task returned on the instances before it, also when every
\* task was removed before the restart.
C21_NoReuseAcrossRestart ==
    [][IsAddStep => \A i \in issued_before : last'.ret.id[1] > i]_vars

\* C21 witness: id 1 was issued by an earlier instance and its task removed
\* before the restart; the instance constructed afterwards loaded no task
\* and its add_task returned id 2.
C21_Witness ==
    /\ last.op = "add_task"
    /\ issued_before = {1}
    /\ issued = {2}
    /\ held = {2}
    /\ Len(tasks) = 1
    /\ last.ret.id = Some(2)

====
